---------------------------- MODULE Spec2Model ----------------------------
(***************************************************************************)
(* Model of bitwarden_backup (src/src/bitwarden_backup/bwbackup.py): the   *)
(* bw_backup command, which drives the Bitwarden CLI through               *)
(* logout -> layout -> login -> export stages -> logout, and its process   *)
(* runner run_cmd.                                                         *)
(*                                                                         *)
(* State: the locals of bw_backup, os.environ, the part of the file system *)
(* the run touches, the vault as the external tool reports it, and the     *)
(* history of external calls with the environment each child inherited.    *)
(***************************************************************************)
EXTENDS Naturals, Integers, Sequences, FiniteSets, TLC

(* ------------------------------ bounds -------------------------------- *)
\* random.randint(1, 100000) is drawn from 1..MaxRand
MaxRand == 2
\* longest items list the vault reports in the attachment / organization families
MaxItems == 3
\* longest items list the vault reports when the whole environment varies
MaxFlowItems == 1
\* most attachments one item holds
MaxAtt == 1
\* number of distinct organization ids
NumOrgs == 2
\* latest start time of a run, in clock ticks
MaxTick == 3
\* clock ticks per second (datetime.now() is finer than the timestamp)
TicksPerSecond == 2

(* ----------------------------- values --------------------------------- *)
\* the master password handed to bw_backup (non-empty by precondition)
MasterPassword == "hunter2"
\* stdout of a successful 'bw login --raw'
Token == "session-token"
\* a session left over from an earlier login
StaleToken == "stale-token"
\* the value every clearing assignment writes
Empty == ""

SESSION == "BW_SESSION"
PASSWORD_VAR == "BW_PASSWORD"
USERID_VAR == "BW_USERID"

OrgNames == <<"A", "B", "C", "D">>
Orgs == {OrgNames[i] : i \in 1..NumOrgs}

(* --------------------------- os.environ ------------------------------- *)
\* os.environ[k] = v
SetEnv(e, k, v) == [x \in (DOMAIN e) \cup {k} |-> IF x = k THEN v ELSE e[x]]
\* os.environ.get(k, '')
GetEnv(e, k) == IF k \in DOMAIN e THEN e[k] ELSE Empty

\* f'BW_{random.randint(1,100000)}'
ChannelName(n) == "BW_" \o ToString(n)

(* ------------------------------ paths --------------------------------- *)
Sep == "/"
\* os.path.join(a, b) for a relative b
Join(a, b) ==
    IF Len(a) = 0 THEN b
    ELSE IF a[Len(a)] = Sep THEN a \o b
    ELSE a \o <<Sep>> \o b

TwoDigits(n) == ToString((n \div 10) % 10) \o ToString(n % 10)
\* datetime.isoformat(timespec="seconds") of a clock reading: the sub-second
\* part is dropped
IsoFormat(tick) ==
    LET s == tick \div TicksPerSecond
    IN  <<"2026-11-05", "T", TwoDigits(s \div 3600), ":",
          TwoDigits((s \div 60) % 60), ":", TwoDigits(s % 60)>>
\* str.replace(old, new), one token per character group
Replace(str, old, new) == [i \in 1..Len(str) |-> IF str[i] = old THEN new ELSE str[i]]
\* the timestamp-suffixed directory name
RunName(tick) == <<"bwbackup_">> \o Replace(IsoFormat(tick), ":", ".")
\* the root left out
RunDir_NameOnly(root, tick) == RunName(tick)
\* line 29: the run directory
RunDir(root, tick) == Join(root, RunName(tick))

(* ------------------------------ vault --------------------------------- *)
\* what json.load gives for one item: 'attachments' and 'organizationId' may
\* be missing; organizationId may be null
NoKey == "<absent>"
Null == "<null>"
AttChoices == {-1} \cup (0..MaxAtt)
OrgChoices == {NoKey, Null} \cup Orgs
MkItem(i, a, o) ==
    [id |-> i, hasAtt |-> a >= 0,
     attachments |-> [j \in 1..(IF a >= 0 THEN a ELSE 0) |-> [id |-> <<i, j>>, fileName |-> <<"f", i, j>>]],
     organizationId |-> o]
ItemLists(maxLen, atts, orgs) ==
    UNION {{[i \in 1..n |-> MkItem(i, a[i], o[i])] : a \in [1..n -> atts], o \in [1..n -> orgs]}
           : n \in 0..maxLen}

VARIABLES
    pc,                \* position in bw_backup / __main__
    bw_password,       \* the parameter bw_password
    environ,           \* os.environ
    root,              \* the argument output_dir
    now,               \* datetime.now() at line 29, in ticks
    fs,                \* run directories on disk: path -> [run, entries]
    prior,             \* the earlier run whose directory is on disk, if any
    output_dir,        \* output_dir after line 29
    password_env,      \* line 48
    login_rc,          \* result.returncode of the login call (-1: not made)
    result,            \* value returned by bw_backup (-1: none)
    raised,            \* an exception is propagating out of bw_backup
    exit_code,         \* status the process ends with (-1: still running)
    calls,             \* external calls so far, each with what the child saw
    last_rc,           \* exit status of the most recent external call
    failed_at,         \* the step that raised and why ("none" when none did)
    vault_items,       \* what 'bw list items' reports
    vault_orgs,        \* ids in what 'bw list organizations' reports
    items,             \* line 83
    organizations,     \* line 103 (the ids it maps)
    organization_ids,  \* line 104
    item_idx, att_idx, \* loop positions, lines 89 and 91
    total_attachments, \* line 87
    manifest,          \* lines written to attachments.txt
    org_idx            \* loop position, line 108

envVars == <<bw_password, environ, password_env>>
dirVars == <<root, now, fs, prior, output_dir>>
outVars == <<login_rc, result, raised, exit_code, failed_at>>
vaultVars == <<vault_items, vault_orgs>>
loopVars == <<items, organizations, organization_ids, item_idx, att_idx,
              total_attachments, manifest, org_idx>>
vars == <<pc, envVars, dirVars, outVars, calls, last_rc, vaultVars, loopVars>>

(* ---------------------------- run_cmd --------------------------------- *)
\* what subprocess.run starts: the command, and the memory / environment
\* at that moment (the child inherits os.environ)
Call(cmd, arg) == [cmd |-> cmd, arg |-> arg, mem |-> bw_password, env |-> environ]
CallWith(cmd, arg, e) == [cmd |-> cmd, arg |-> arg, mem |-> bw_password, env |-> e]
ExitCodes == {0, 1}


\* fail_ok not consulted
RunCmdRaises_NoFailOk(fail_ok, rc) == rc # 0
\* the exit status not consulted
RunCmdRaises_Never(fail_ok, rc) == FALSE
\* line 126: run_cmd raises when the exit status is non-zero, unless fail_ok
RunCmdRaises(fail_ok, rc) == ~fail_ok /\ rc # 0

\* what failed_at holds: the step, and whether a command's exit status or an
\* error of the step itself (a file operation, a parse, a lookup) raised
Failure(stage, cause) == [stage |-> stage, cause |-> cause]
NoFailure == Failure("none", "none")
ExitStatus == "exit status"
Error == "error"

\* the assignment left out
ClearSession_Missing(e) == e
\* lines 66 and 119: os.environ['BW_SESSION'] = ''
ClearSession(e) == SetEnv(e, SESSION, Empty)

(* --------------------------- file system ------------------------------ *)
NoFiles == <<>>
PriorEntries == {"export.json", "master_password.txt"}
Remove(f, p) == [x \in (DOMAIN f) \ {p} |-> f[x]]
Put(f, p, d) == [x \in (DOMAIN f) \cup {p} |-> IF x = p THEN d ELSE f[x]]
AddEntries(f, p, names) ==
    IF p \in DOMAIN f THEN [f EXCEPT ![p].entries = @ \cup names] ELSE f
\* the file is never created
AddEntry_Nothing(f, p, name) == f
AddEntry(f, p, name) == AddEntries(f, p, {name})
\* shutil.rmtree(p, ignore_errors=True): the tree is gone, or, when a removal
\* failed, the directory is still there with some of its entries
RmtreeResults(f, p) ==
    IF p \notin DOMAIN f THEN {f}
    ELSE {Remove(f, p)} \cup {[f EXCEPT ![p].entries = s] : s \in SUBSET f[p].entries}
ThisRun(entries) == [run |-> "this", entries |-> entries]

(* ------------------------------ Init ---------------------------------- *)
NoPrior == [exists |-> FALSE, root |-> <<>>, tick |-> 0]
Roots == {<<"a">>, <<"a", Sep>>, <<"b">>, <<"a", Sep, "b">>}
PriorDir(p) == RunDir(p.root, p.tick)
DiskWith(p) ==
    IF p.exists THEN PriorDir(p) :> [run |-> "prior", entries |-> PriorEntries]
    ELSE NoFiles

InitLocals ==
    /\ pc = "preclean"
    /\ bw_password = MasterPassword
    /\ output_dir = <<>>
    /\ password_env = Empty
    /\ login_rc = -1
    /\ result = -1
    /\ raised = FALSE
    /\ exit_code = -1
    /\ calls = <<>>
    /\ last_rc = 0
    /\ failed_at = NoFailure
    /\ items = <<>>
    /\ organizations = {}
    /\ organization_ids = <<>>
    /\ item_idx = 0
    /\ att_idx = 0
    /\ total_attachments = 0
    /\ manifest = <<>>
    /\ org_idx = 0

\* the environment the process starts with: a stale session may be set, and
\* BW_PASSWORD is set when the password came from it (click's envvar)
StartEnvs ==
    {s @@ p : s \in {NoFiles, SESSION :> StaleToken},
              p \in {NoFiles, PASSWORD_VAR :> MasterPassword}}
WorstEnv == (SESSION :> StaleToken) @@ (PASSWORD_VAR :> MasterPassword)

\* every starting environment, a small vault
InitFlow ==
    /\ environ \in StartEnvs
    /\ root = <<"a">> /\ now = 0 /\ prior = NoPrior
    /\ vault_items \in ItemLists(MaxFlowItems, AttChoices, OrgChoices)
    /\ vault_orgs = Orgs
\* vaults that vary in their attachments
InitAttachments ==
    /\ environ = WorstEnv
    /\ root = <<"a">> /\ now = 0 /\ prior = NoPrior
    /\ vault_items \in ItemLists(MaxItems, AttChoices, {Null})
    /\ vault_orgs = {}
\* vaults that vary in their organizations
InitOrganizations ==
    /\ environ = WorstEnv
    /\ root = <<"a">> /\ now = 0 /\ prior = NoPrior
    /\ vault_items \in ItemLists(MaxItems, {-1}, OrgChoices)
    /\ vault_orgs \in SUBSET Orgs
\* an earlier run's directory on disk, any root, any start time
InitDirs ==
    /\ environ = WorstEnv
    /\ root \in Roots /\ now \in 0..MaxTick
    /\ prior \in {NoPrior} \cup
                 {[exists |-> TRUE, root |-> r, tick |-> t] : r \in Roots, t \in 0..now}
    /\ vault_items = <<>>
    /\ vault_orgs = {}

Init ==
    /\ InitLocals
    /\ \/ InitFlow
       \/ InitAttachments
       \/ InitOrganizations
       \/ InitDirs
    /\ fs = DiskWith(prior)

(* ----------------------------- actions -------------------------------- *)
\* line 27: run_cmd(['bw', 'logout'], fail_ok=True)
PreClean ==
    /\ pc = "preclean"
    /\ \E rc \in ExitCodes :
        /\ calls' = Append(calls, Call("logout", <<>>))
        /\ last_rc' = rc
        /\ IF RunCmdRaises(TRUE, rc)
           THEN pc' = "raised" /\ raised' = TRUE /\ failed_at' = Failure("preclean", ExitStatus)
           ELSE pc' = "layout" /\ UNCHANGED <<raised, failed_at>>
    /\ UNCHANGED <<envVars, dirVars, login_rc, result, exit_code, vaultVars, loopVars>>

\* the layout lines inside the first try: the handler of line 63 takes over
LayoutRaise_Handled ==
    /\ pc' = "auth_except"
    /\ failed_at' = [stage |-> "layout", cause |-> "error"]
    /\ UNCHANGED <<raised, password_env>>
\* an error leaves bw_backup from the layout lines, outside every try
LayoutRaise ==
    /\ pc' = "raised"
    /\ raised' = TRUE
    /\ failed_at' = Failure("layout", Error)
    /\ UNCHANGED password_env

\* os.makedirs(p, exist_ok=True) in place of os.mkdir(p)
MkdirExists_ExistOk(f, p) == FALSE
\* lines 42-44: os.mkdir(p) raises FileExistsError when p is already there
MkdirExists(f, p) == p \in DOMAIN f
\* lines 42-44: os.mkdir(p) that did not raise: a new, empty directory (a
\* directory already there is left as it is)
Mkdir(f, p) == IF p \in DOMAIN f THEN f ELSE Put(f, p, ThisRun({}))

\* lines 29-48: the run directory is named, removed if present, and created
\* with its two subdirectories; then the channel variable is named
Layout ==
    /\ pc = "layout"
    /\ LET dir == RunDir(root, now) IN
       /\ output_dir' = dir
       /\ \E f1 \in RmtreeResults(fs, dir) :
            \/ \* os.mkdir(output_dir) raises (always when it still exists)
               /\ fs' = f1
               /\ LayoutRaise
            \/ \* os.mkdir(attachments_dir) raises
               /\ ~MkdirExists(f1, dir)
               /\ fs' = Mkdir(f1, dir)
               /\ LayoutRaise
            \/ \* os.mkdir(organizations_dir) raises
               /\ ~MkdirExists(f1, dir)
               /\ fs' = AddEntry(Mkdir(f1, dir), dir, "attachments")
               /\ LayoutRaise
            \/ /\ ~MkdirExists(f1, dir)
               /\ fs' = AddEntries(Mkdir(f1, dir), dir, {"attachments", "organizations"})
               /\ \E n \in 1..MaxRand : password_env' = ChannelName(n)
               /\ pc' = "write_pw"
               /\ UNCHANGED <<raised, failed_at>>
    /\ UNCHANGED <<bw_password, environ, root, now, prior, login_rc, result,
                   exit_code, calls, last_rc, vaultVars, loopVars>>

\* lines 49-53: master_password.txt is written; an error goes to the handler
\* of line 63
WritePasswordFile ==
    /\ pc = "write_pw"
    /\ \/ /\ fs' = AddEntry(fs, output_dir, "master_password.txt")
          /\ pc' = "login"
          /\ UNCHANGED failed_at
       \/ \* open() raised: no file
          /\ fs' = fs
          /\ pc' = "auth_except"
          /\ failed_at' = Failure("write_pw", Error)
       \/ \* a write raised: the file is there, incomplete
          /\ fs' = AddEntry(fs, output_dir, "master_password.txt")
          /\ pc' = "auth_except"
          /\ failed_at' = Failure("write_pw", Error)
    /\ UNCHANGED <<envVars, root, now, prior, output_dir, login_rc, result, raised,
                   exit_code, calls, last_rc, vaultVars, loopVars>>

\* lines 69-70, the finally of the first try
AuthFinally(e) == SetEnv(e, password_env, Empty)

\* line 62 assigning a token this run's login did not print
LoginStdout_Discarded(rc) == StaleToken
\* result.stdout of 'bw login --raw': the session token when it succeeds
LoginStdout(rc) == IF rc = 0 THEN Token ELSE Empty
\* the return code not checked
LoginFailed_Unchecked(rc) == FALSE
\* line 59: the login call failed
LoginFailed(rc) == rc # 0

\* lines 55-62 (and 69-70 when the try block ends normally)
Login ==
    /\ pc = "login"
    /\ LET env1 == SetEnv(environ, password_env, bw_password) IN
       /\ calls' = Append(calls, CallWith("login", <<>>, env1))
       /\ \/ \E rc \in ExitCodes :
              /\ last_rc' = rc
              /\ login_rc' = rc
              /\ bw_password' = Empty
              /\ IF LoginFailed(rc)
                 THEN \* line 60 raises
                      /\ environ' = SetEnv(env1, password_env, Empty)
                      /\ pc' = "auth_except"
                      /\ failed_at' = Failure("login", ExitStatus)
                 ELSE \* stdout is the session token
                      /\ environ' = AuthFinally(SetEnv(SetEnv(env1, password_env, Empty),
                                                       SESSION, LoginStdout(rc)))
                      /\ pc' = "sync"
                      /\ UNCHANGED failed_at
          \/ \* subprocess.run itself raised (undecodable output, spawn error):
             \* lines 57-58 are skipped
             /\ last_rc' = last_rc
             /\ login_rc' = -1
             /\ bw_password' = bw_password
             /\ environ' = env1
             /\ pc' = "auth_except"
             /\ failed_at' = Failure("login", Error)
    /\ UNCHANGED <<password_env, dirVars, result, raised, exit_code, vaultVars, loopVars>>

\* the handler without its return: control goes on to the second try
AfterHandler_FallsThrough == "sync"
\* line 67: return 1 (the finally of line 68 runs on the way out)
AfterHandler == "returned"

\* lines 63-70: the handler logs out, clears BW_SESSION and returns 1; then
\* the finally clears the password and the channel
AuthExcept ==
    /\ pc = "auth_except"
    /\ \E rc \in ExitCodes :
        /\ calls' = Append(calls, Call("logout", <<>>))
        /\ last_rc' = rc
        /\ IF RunCmdRaises(TRUE, rc)
           THEN /\ raised' = TRUE /\ pc' = "raised" /\ UNCHANGED result
                /\ environ' = AuthFinally(environ)
           ELSE /\ result' = 1 /\ pc' = AfterHandler /\ UNCHANGED raised
                /\ environ' = AuthFinally(ClearSession(environ))
    /\ bw_password' = Empty
    /\ UNCHANGED <<password_env, dirVars, login_rc, exit_code, failed_at,
                   vaultVars, loopVars>>


(* --------------------------- export stages ---------------------------- *)
\* the handler of line 114 returning 0
StageFail_ReturnsZero(stage, cause) ==
    /\ failed_at' = Failure(stage, cause)
    /\ result' = 0
    /\ pc' = "finally2"
\* lines 114-116: an error in the second try is printed and 1 is returned
\* (after the finally of line 117)
StageFail(stage, cause) ==
    /\ failed_at' = Failure(stage, cause)
    /\ result' = 1
    /\ pc' = "finally2"

\* a step of the second try that is one external call: the command, where the
\* run goes when it succeeds, and the file the tool leaves
SimpleStage(stage, cmd, next, files) ==
    /\ pc = stage
    /\ \E rc \in ExitCodes :
        /\ calls' = Append(calls, Call(cmd, <<>>))
        /\ last_rc' = rc
        /\ IF RunCmdRaises(FALSE, rc)
           THEN StageFail(stage, ExitStatus) /\ UNCHANGED fs
           ELSE /\ pc' = next
                /\ fs' = AddEntries(fs, output_dir, files)
                /\ UNCHANGED <<failed_at, result>>
    /\ UNCHANGED <<envVars, root, now, prior, output_dir, login_rc, raised, exit_code,
                   vaultVars, loopVars>>

\* line 73
Sync == SimpleStage("sync", "sync", "export", {})

\* line 74
ExportVault == SimpleStage("export", "export", "list_folders", {"export.json"})

\* lines 75-79: the listing, then the file is read back and parsed
ListFolders ==
    /\ pc = "list_folders"
    /\ \E rc \in ExitCodes :
        /\ calls' = Append(calls, Call("list folders", <<>>))
        /\ last_rc' = rc
        /\ fs' = AddEntry(fs, output_dir, "folders.json")
        /\ IF RunCmdRaises(FALSE, rc)
           THEN StageFail("list_folders", ExitStatus)
           ELSE \/ pc' = "list_items" /\ UNCHANGED <<failed_at, result>>
                \/ \* open or json.load raised
                   StageFail("list_folders", Error)
    /\ UNCHANGED <<envVars, root, now, prior, output_dir, login_rc, raised, exit_code,
                   vaultVars, loopVars>>

\* lines 81-84
ListItems ==
    /\ pc = "list_items"
    /\ \E rc \in ExitCodes :
        /\ calls' = Append(calls, Call("list items", <<>>))
        /\ last_rc' = rc
        /\ fs' = AddEntry(fs, output_dir, "items.json")
        /\ IF RunCmdRaises(FALSE, rc)
           THEN StageFail("list_items", ExitStatus) /\ UNCHANGED items
           ELSE \/ /\ items' = vault_items
                   /\ pc' = "att_open"
                   /\ UNCHANGED <<failed_at, result>>
                \/ \* open or json.load raised
                   StageFail("list_items", Error) /\ UNCHANGED items
    /\ UNCHANGED <<envVars, root, now, prior, output_dir, login_rc, raised, exit_code,
                   vaultVars, organizations, organization_ids, item_idx, att_idx,
                   total_attachments, manifest, org_idx>>

\* lines 87-88: the manifest is opened for writing
AttachmentsOpen ==
    /\ pc = "att_open"
    /\ total_attachments' = 0
    /\ \/ /\ fs' = AddEntry(fs, output_dir, "attachments.txt")
          /\ item_idx' = 1 /\ att_idx' = 1
          /\ pc' = "att_loop"
          /\ UNCHANGED <<failed_at, result>>
       \/ /\ StageFail("attachments", Error)
          /\ UNCHANGED <<fs, item_idx, att_idx>>
    /\ UNCHANGED <<envVars, root, now, prior, output_dir, login_rc, raised, exit_code,
                   calls, last_rc, vaultVars, items, organizations, organization_ids,
                   manifest, org_idx>>

\* line 94: one manifest line
ManifestLine(item, attachment) ==
    [item_id |-> item.id, attachment_id |-> attachment.id, filename |-> attachment.fileName]

\* one counted per item
AddCount_PerItem(total, item) == total + 1
\* line 98
AddCount(total, item) == total + Len(item.attachments)

\* lines 89-99, one turn of the loops: an item without the key is passed
\* over; an attachment is recorded and downloaded; after an item's last
\* attachment its count is added; after the last item the total is printed
AttachmentsLoop ==
    /\ pc = "att_loop"
    /\ IF item_idx > Len(items)
       THEN /\ pc' = "list_orgs"
            /\ UNCHANGED <<item_idx, att_idx, total_attachments, manifest, calls,
                           last_rc, failed_at, result>>
       ELSE LET item == items[item_idx] IN
            IF ~item.hasAtt
            THEN /\ item_idx' = item_idx + 1
                 /\ UNCHANGED <<pc, att_idx, total_attachments, manifest, calls,
                                last_rc, failed_at, result>>
            ELSE IF att_idx > Len(item.attachments)
            THEN /\ total_attachments' = AddCount(total_attachments, item)
                 /\ item_idx' = item_idx + 1
                 /\ att_idx' = 1
                 /\ UNCHANGED <<pc, manifest, calls, last_rc, failed_at, result>>
            ELSE LET attachment == item.attachments[att_idx] IN
                 \/ \* attf.write raised
                    /\ StageFail("attachments", Error)
                    /\ UNCHANGED <<item_idx, att_idx, total_attachments, manifest,
                                   calls, last_rc>>
                 \/ /\ manifest' = Append(manifest, ManifestLine(item, attachment))
                    /\ calls' = Append(calls, Call("get attachment", <<item.id, attachment.id>>))
                    /\ UNCHANGED <<item_idx, total_attachments>>
                    /\ \E rc \in ExitCodes :
                        /\ last_rc' = rc
                        /\ IF RunCmdRaises(FALSE, rc)
                           THEN StageFail("attachments", ExitStatus) /\ UNCHANGED att_idx
                           ELSE /\ att_idx' = att_idx + 1
                                /\ UNCHANGED <<pc, failed_at, result>>
    /\ UNCHANGED <<envVars, dirVars, login_rc, raised, exit_code, vaultVars, items,
                   organizations, organization_ids, org_idx>>

(* organizations *)
Range(s) == {s[i] : i \in 1..Len(s)}
\* line 105: a value that counts as true in 'if item['organizationId']'
Truthy(v) == v # Null /\ v # Empty
\* line 105: the comprehension needs the key in every item
MissingOrgKey(its) == \E i \in 1..Len(its) : its[i].organizationId = NoKey
\* line 105: the organization ids of the items that have one
RECURSIVE OrgRefs(_)
OrgRefs(its) ==
    IF Len(its) = 0 THEN <<>>
    ELSE IF Truthy(its[1].organizationId)
         THEN <<its[1].organizationId>> \o OrgRefs(Tail(its))
         ELSE OrgRefs(Tail(its))
\* every id appended, seen before or not
AppendNew_NoCheck(acc, refs) == acc \o refs
\* lines 104-107: append each id not yet in the list
RECURSIVE AppendNew(_, _)
AppendNew(acc, refs) ==
    IF Len(refs) = 0 THEN acc
    ELSE AppendNew(IF refs[1] \in Range(acc) THEN acc ELSE Append(acc, refs[1]), Tail(refs))
OrganizationIds(its) == AppendNew(<<>>, OrgRefs(its))

\* lines 101-107
ListOrganizations ==
    /\ pc = "list_orgs"
    /\ \E rc \in ExitCodes :
        /\ calls' = Append(calls, Call("list organizations", <<>>))
        /\ last_rc' = rc
        /\ fs' = AddEntry(fs, output_dir, "organizations.json")
        /\ IF RunCmdRaises(FALSE, rc)
           THEN StageFail("list_orgs", ExitStatus) /\ UNCHANGED <<organizations, organization_ids, org_idx>>
           ELSE \/ \* open or json.load raised
                   StageFail("list_orgs", Error) /\ UNCHANGED <<organizations, organization_ids, org_idx>>
                \/ /\ organizations' = vault_orgs
                   /\ IF MissingOrgKey(items)
                      THEN StageFail("org_ids", Error) /\ UNCHANGED <<organization_ids, org_idx>>
                      ELSE /\ organization_ids' = OrganizationIds(items)
                           /\ org_idx' = 1
                           /\ pc' = "org_export"
                           /\ UNCHANGED <<failed_at, result>>
    /\ UNCHANGED <<envVars, root, now, prior, output_dir, login_rc, raised, exit_code,
                   vaultVars, items, item_idx, att_idx, total_attachments, manifest>>

\* lines 108-113, one turn of the loop, or the return after it
OrganizationExport ==
    /\ pc = "org_export"
    /\ IF org_idx > Len(organization_ids)
       THEN /\ result' = 0
            /\ pc' = "finally2"
            /\ UNCHANGED <<org_idx, calls, last_rc, failed_at>>
       ELSE LET organization_id == organization_ids[org_idx] IN
            IF organization_id \notin organizations
            THEN \* line 109: the lookup raises
                 StageFail("org_export", Error) /\ UNCHANGED <<org_idx, calls, last_rc>>
            ELSE \E rc \in ExitCodes :
                   /\ calls' = Append(calls, Call("export organization", <<organization_id>>))
                   /\ last_rc' = rc
                   /\ IF RunCmdRaises(FALSE, rc)
                      THEN StageFail("org_export", ExitStatus) /\ UNCHANGED org_idx
                      ELSE /\ org_idx' = org_idx + 1
                           /\ UNCHANGED <<pc, failed_at, result>>
    /\ UNCHANGED <<envVars, dirVars, login_rc, raised, exit_code, vaultVars, items,
                   organizations, organization_ids, item_idx, att_idx,
                   total_attachments, manifest>>

\* lines 117-119: the finally of the second try
FinalLogout ==
    /\ pc = "finally2"
    /\ \E rc \in ExitCodes :
        /\ calls' = Append(calls, Call("logout", <<>>))
        /\ last_rc' = rc
        /\ IF RunCmdRaises(TRUE, rc)
           THEN raised' = TRUE /\ pc' = "raised" /\ UNCHANGED environ
           ELSE /\ environ' = ClearSession(environ)
                /\ pc' = "returned"
                /\ UNCHANGED raised
    /\ UNCHANGED <<bw_password, password_env, dirVars, login_rc, result, exit_code,
                   failed_at, vaultVars, loopVars>>

\* lines 132-134: sys.exit(rc), rc being what the body of bw_backup returned
\* (the click decorators of lines 14-18 are taken to pass it through); an
\* exception that left bw_backup ends the interpreter with status 1
MainExit ==
    /\ pc \in {"returned", "raised"}
    /\ exit_code' = IF raised THEN 1 ELSE result
    /\ pc' = "exited"
    /\ UNCHANGED <<envVars, dirVars, login_rc, result, raised, failed_at, calls,
                   last_rc, vaultVars, loopVars>>

Next ==
    \/ PreClean
    \/ Layout
    \/ WritePasswordFile
    \/ Login
    \/ AuthExcept
    \/ Sync
    \/ ExportVault
    \/ ListFolders
    \/ ListItems
    \/ AttachmentsOpen
    \/ AttachmentsLoop
    \/ ListOrganizations
    \/ OrganizationExport
    \/ FinalLogout
    \/ MainExit

Spec == Init /\ [][Next]_vars


(* ====================================================================== *)
(* Properties                                                             *)
(* ====================================================================== *)
LastCall == calls[Len(calls)]
ExportCmds == {"sync", "export", "list folders", "list items", "get attachment",
               "list organizations", "export organization"}
IsExportStage(c) == c.cmd \in ExportCmds
\* the run got past directory layout (line 48 was reached)
PastLayout == password_env # Empty
Finished == pc = "exited"
SessionNow == GetEnv(environ, SESSION)
\* BW_SESSION as the process found it (what the pre-clean child inherited)
SessionAtStart == GetEnv(calls[1].env, SESSION)

(* ------------------------------- C1 ----------------------------------- *)
\* C1 as stated: at the end of every run, however it ended, BW_SESSION is
\* empty and a logout call was attempted.
C1_AsClaimed ==
    Finished => /\ SessionNow = Empty
                /\ \E i \in 1..Len(calls) : calls[i].cmd = "logout"

\* C1, amended: at the end of every run that got past directory layout,
\* whatever the prior session state and whatever the outcome, BW_SESSION is
\* empty and a logout call was attempted after the layout.
C1_SessionClearedPastLayout ==
    (Finished /\ PastLayout) =>
        /\ SessionNow = Empty
        /\ Len(calls) >= 2
        /\ LastCall.cmd = "logout"

\* a failed run that started with a stale session and ended with it cleared
C1_Witness ==
    /\ Finished /\ PastLayout
    /\ SessionAtStart = StaleToken
    /\ exit_code = 1
    /\ failed_at.stage = "sync"
    /\ SessionNow = Empty

(* ------------------------------- C2 ----------------------------------- *)
\* C2: on every path past layout the LOGOUT step is the last external call:
\* 'bw logout' follows the last login / export-stage call, its exit status
\* is ignored (the run still returns), BW_SESSION is cleared only after it
\* (the logout child still sees the session the run had), and nothing is
\* called after it.
C2_LogoutLast ==
    /\ (pc \in {"returned", "raised", "exited"} /\ PastLayout) =>
          /\ ~raised
          /\ Len(calls) >= 2
          /\ LastCall.cmd = "logout"
          /\ SessionNow = Empty
          /\ GetEnv(LastCall.env, SESSION) =
                (IF login_rc = 0 THEN Token ELSE SessionAtStart)
    /\ \A i \in 2..Len(calls) : calls[i].cmd = "logout" => i = Len(calls)

\* a successful run whose final logout exited non-zero
C2_Witness ==
    /\ Finished
    /\ login_rc = 0
    /\ exit_code = 0
    /\ last_rc = 1
    /\ LastCall.cmd = "logout"
    /\ GetEnv(LastCall.env, SESSION) = Token

(* ------------------------------- C3 ----------------------------------- *)
\* C3: when the login call exits non-zero, no export-stage call is ever
\* made in that run and the run's result is 1.
C3_LoginFailureStops ==
    (login_rc > 0) =>
        /\ \A i \in 1..Len(calls) : ~IsExportStage(calls[i])
        /\ pc \notin {"sync", "export", "list_folders", "list_items", "att_open",
                      "att_loop", "list_orgs", "org_export", "finally2", "raised"}
        /\ (pc \in {"returned", "exited"} => result = 1)
        /\ (Finished => exit_code = 1)

\* the run ended after a login that exited non-zero
C3_Witness ==
    /\ Finished
    /\ login_rc = 1
    /\ \E i \in 1..Len(calls) : calls[i].cmd = "login"

(* ------------------------------- C4 ----------------------------------- *)
\* the place of a command in the fixed order of export stages
Rank(cmd) ==
    CASE cmd = "sync" -> 1
      [] cmd = "export" -> 2
      [] cmd = "list folders" -> 3
      [] cmd = "list items" -> 4
      [] cmd = "get attachment" -> 5
      [] cmd = "list organizations" -> 6
      [] cmd = "export organization" -> 7
      [] OTHER -> 0
\* the place of the stage a failure belongs to
FailRank(stage) ==
    CASE stage = "sync" -> 1
      [] stage = "export" -> 2
      [] stage = "list_folders" -> 3
      [] stage = "list_items" -> 4
      [] stage = "attachments" -> 5
      [] stage \in {"list_orgs", "org_ids"} -> 6
      [] stage = "org_export" -> 7
      [] OTHER -> 0
\* the stages that are one call each
SingleCallRanks == {1, 2, 3, 4, 6}
ExportRanks == LET ec == SelectSeq(calls, IsExportStage)
               IN  [i \in 1..Len(ec) |-> Rank(ec[i].cmd)]

\* C4: after a successful login the export stages are called in the fixed
\* order sync, export, list folders, list items, attachment downloads, list
\* organizations, organization exports (no stage before an earlier one, no
\* single-call stage skipped or repeated); once stage k has failed, by a
\* non-zero exit status or by an error reading its output, no later stage is
\* called; and the logout still follows.
C4_StagesInOrder ==
    LET r == ExportRanks IN
    /\ (Len(r) > 0 => login_rc = 0 /\ r[1] = 1)
    /\ \A i \in 2..Len(r) :
          /\ r[i] >= r[i - 1]
          /\ (r[i] = r[i - 1] => r[i] \notin SingleCallRanks)
          /\ \A k \in SingleCallRanks : k < r[i] => \E j \in 1..(i - 1) : r[j] = k
    /\ (Len(calls) > 0 /\ IsExportStage(LastCall) /\ last_rc # 0) =>
          /\ pc = "finally2"
          /\ failed_at = Failure(failed_at.stage, ExitStatus)
          /\ FailRank(failed_at.stage) = Rank(LastCall.cmd)
    /\ (FailRank(failed_at.stage) > 0) =>
          /\ pc \in {"finally2", "returned", "exited"}
          /\ result = 1
          /\ \A i \in 1..Len(r) : r[i] <= FailRank(failed_at.stage)
    /\ (Finished /\ login_rc = 0) => (LastCall.cmd = "logout" /\ Len(r) > 0)
    /\ (result = 0) => \A k \in SingleCallRanks : \E j \in 1..Len(r) : r[j] = k

\* the items listing could not be parsed: four stages were called, none
\* after it, and the run logged out
C4_Witness ==
    /\ Finished
    /\ failed_at = Failure("list_items", Error)
    /\ ExportRanks = <<1, 2, 3, 4>>
    /\ LastCall.cmd = "logout"

(* ------------------------------- C5 ----------------------------------- *)
HoldsPassword(c) ==
    \/ c.mem = MasterPassword
    \/ \E k \in DOMAIN c.env : c.env[k] = MasterPassword

\* C5, for the export-stage calls (sync, export, list, get attachment,
\* organization export), all of which follow the authentication step: while
\* such a call runs, neither the retained password variable nor any
\* environment variable of the process, BW_PASSWORD included, holds the
\* master password.
C5_AsClaimed ==
    \A i \in 1..Len(calls) : IsExportStage(calls[i]) => ~HoldsPassword(calls[i])

(* ------------------------------- C6 ----------------------------------- *)
\* C6: on every path out of the authentication step the retained password
\* variable and the channel variable are empty before any later step runs
\* (every call after the pre-clean other than the login call itself finds
\* both empty), and they are empty at the end of the run.
C6_AsClaimed ==
    /\ \A i \in 2..Len(calls) :
          calls[i].cmd # "login" =>
              /\ calls[i].mem = Empty
              /\ GetEnv(calls[i].env, password_env) = Empty
    /\ (Finished /\ PastLayout) =>
          /\ bw_password = Empty
          /\ GetEnv(environ, password_env) = Empty

IsOrgExport(c) == c.cmd = "export organization"
\* the organization ids of the organization-export calls, in call order
OrgCalls == LET oc == SelectSeq(calls, IsOrgExport) IN [i \in 1..Len(oc) |-> oc[i].arg[1]]
\* the organizations the items of a listing reference
Referenced(its) == {its[i].organizationId : i \in 1..Len(its)} \cap Orgs
\* the first item that references organization o
FirstRef(its, o) == CHOOSE i \in 1..Len(its) :
                        /\ its[i].organizationId = o
                        /\ \A j \in 1..(i - 1) : its[j].organizationId # o
\* seq lists organizations the items reference, each at most once, in the
\* order of their first reference, leaving none out before its last element
IsFirstSeenPrefix(seq, its) ==
    /\ \A a \in 1..Len(seq) : seq[a] \in Referenced(its)
    /\ \A a, b \in 1..Len(seq) : a < b => FirstRef(its, seq[a]) < FirstRef(its, seq[b])
    /\ \A a \in 1..Len(seq) : \A o \in Referenced(its) :
          FirstRef(its, o) < FirstRef(its, seq[a]) => \E b \in 1..(a - 1) : seq[b] = o
\* seq is the whole first-seen list
IsFirstSeenList(seq, its) ==
    /\ IsFirstSeenPrefix(seq, its)
    /\ \A o \in Referenced(its) : \E a \in 1..Len(seq) : seq[a] = o

\* C8 as stated, for the runs that reach the organization exports: when no
\* call of the run exited non-zero, the organization-export calls are the
\* referenced organization ids, duplicates removed, in first-seen order.
C8_AsClaimed ==
    (Finished /\ login_rc = 0 /\ failed_at.stage \in {"none", "org_export"}
              /\ failed_at.cause # ExitStatus) =>
        IsFirstSeenList(OrgCalls, vault_items)

\* C8, amended: in a run that returns 0 the organization-export calls are
\* the organization ids the items reference, duplicates removed, first
\* occurrences kept in order; in every run they are a prefix of that list
\* (a failed call, or a failed lookup of an id in the organizations listing,
\* ends the stage); an item whose organizationId is null contributes no call
\* and causes no failure (collecting the ids fails only on an item that has
\* no organizationId key).
C8_FirstSeenOrder ==
    /\ IsFirstSeenPrefix(OrgCalls, vault_items)
    /\ (result = 0) => IsFirstSeenList(OrgCalls, vault_items)
    /\ (failed_at.stage = "org_ids") =>
          \E i \in 1..Len(vault_items) : vault_items[i].organizationId = NoKey
    /\ (failed_at = Failure("org_export", Error)) =>
          \E o \in Referenced(vault_items) : o \notin vault_orgs

\* items referencing [A, B, A] gave one call for A, then one for B
C8_Witness ==
    /\ Finished
    /\ exit_code = 0
    /\ Len(vault_items) = 3
    /\ vault_items[1].organizationId \in Orgs
    /\ vault_items[2].organizationId \in Orgs \ {vault_items[1].organizationId}
    /\ vault_items[3].organizationId = vault_items[1].organizationId
    /\ OrgCalls = <<vault_items[1].organizationId, vault_items[2].organizationId>>

(* ------------------------------- C9 ----------------------------------- *)
IsGetAttachment(c) == c.cmd = "get attachment"
GetAttachmentCalls == SelectSeq(calls, IsGetAttachment)
\* the attachment entries of a listing: (item, position) pairs over the
\* items that have an attachments array
Entries(its) ==
    UNION {{<<i, j>> : j \in 1..Len(its[i].attachments)} :
           i \in {x \in 1..Len(its) : its[x].hasAtt}}
\* the attachment stage ran to its end (line 99 was reached)
AttachmentStageDone ==
    \/ pc = "list_orgs"
    \/ \E i \in 1..Len(calls) : calls[i].cmd = "list organizations"

\* C9: when the items that have an attachments array hold t entries in
\* total, a run whose attachment stage completes has written t manifest
\* lines, made t attachment-download calls (one per line, for the same
\* attachment) and counted a total of t.
C9_AttachmentCounts ==
    AttachmentStageDone =>
        LET t == Cardinality(Entries(vault_items)) IN
        /\ Len(manifest) = t
        /\ Len(GetAttachmentCalls) = t
        /\ total_attachments = t
        /\ \A i \in 1..Len(manifest) :
              /\ i <= Len(GetAttachmentCalls)
              /\ GetAttachmentCalls[i].arg = <<manifest[i].item_id, manifest[i].attachment_id>>

\* three items, one without the key, two entries in all
C9_Witness ==
    /\ AttachmentStageDone
    /\ Len(vault_items) = 3
    /\ \E i \in 1..3 : ~vault_items[i].hasAtt
    /\ Cardinality(Entries(vault_items)) = 2
    /\ Len(manifest) = 2
    /\ total_attachments = 2

(* ------------------------------- C10 ---------------------------------- *)
\* the second a clock reading falls in
Second(tick) == tick \div TicksPerSecond
\* a root without its trailing separator: "a" and "a/" name one directory
StripSep(r) == IF Len(r) > 1 /\ r[Len(r)] = Sep THEN SubSeq(r, 1, Len(r) - 1) ELSE r
\* the directory a run directory lies in
Parent(path) == SubSeq(path, 1, Len(path) - Len(RunName(0)))
\* the earlier run's directory is on disk as that run left it
PriorIntact ==
    /\ PriorDir(prior) \in DOMAIN fs
    /\ fs[PriorDir(prior)] = [run |-> "prior", entries |-> PriorEntries]

\* C10: a run started in the same second as an earlier run but under a
\* different root directory uses a different run directory; a run started
\* under the same root at a later timestamp uses a sibling of the earlier
\* run's directory; in both cases the earlier run's directory is neither
\* removed nor written to.
C10_RunDirsDistinct ==
    (prior.exists /\ output_dir # <<>>) =>
        /\ (Second(prior.tick) = Second(now) /\ StripSep(prior.root) # StripSep(root)) =>
              /\ output_dir # PriorDir(prior)
              /\ PriorIntact
        /\ (StripSep(prior.root) = StripSep(root) /\ Second(now) > Second(prior.tick)) =>
              /\ output_dir # PriorDir(prior)
              /\ Parent(output_dir) = Parent(PriorDir(prior))
              /\ PriorIntact

\* a run laid out its directory next to that of an earlier run of the same
\* root and an earlier second
C10_Witness ==
    /\ prior.exists
    /\ prior.root = root
    /\ Second(now) > Second(prior.tick)
    /\ pc = "write_pw"
    /\ output_dir \in DOMAIN fs
    /\ fs[output_dir].run = "this"
    /\ PriorIntact

(* ------------------------------- C11 ---------------------------------- *)
\* C11 as stated: when an earlier run under the same root left its directory
\* on disk, whenever that run started (the same second included), the later
\* run's layout neither removes nor overwrites what the earlier run left.
C11_AsClaimed ==
    (prior.exists /\ prior.root = root /\ output_dir # <<>>) => PriorIntact

(* ------------------------------- C12 ---------------------------------- *)
\* the places of the run in the order control passes them; a handler comes
\* right after the try it belongs to
PcOrder == <<"preclean", "layout", "write_pw", "login", "auth_except", "sync",
             "export", "list_folders", "list_items", "att_open", "att_loop",
             "list_orgs", "org_export", "finally2", "returned", "raised", "exited">>
PcRank(l) == CHOOSE i \in 1..Len(PcOrder) : PcOrder[i] = l
\* how far the run has come: its place, then the counters of its loops
Position == <<PcRank(pc), item_idx, att_idx, org_idx>>
LexLess(a, b) ==
    \E k \in 1..Len(a) : a[k] < b[k] /\ \A j \in 1..(k - 1) : a[j] = b[j]
\* the loop counters stay within the lists they walk
PositionBounded ==
    /\ pc \in {PcOrder[i] : i \in 1..Len(PcOrder)}
    /\ item_idx \in 0..(Len(items) + 1)
    /\ att_idx \in 0..(MaxAtt + 1)
    /\ org_idx \in 0..(Len(organization_ids) + 1)

\* a logout call was issued after the last login or export-stage call
LogoutAfterLastCall ==
    \E i \in 1..Len(calls) :
        /\ calls[i].cmd = "logout"
        /\ \A j \in (i + 1)..Len(calls) : calls[j].cmd = "logout"
LOGGED_OUT == LogoutAfterLastCall /\ SessionNow = Empty

\* C12 as stated: every run ends in LOGGED_OUT, a failure at the layout
\* included.
C12_AsClaimed == Finished => LOGGED_OUT

\* C12, amended: every run terminates: as long as it has not ended a step
\* can be taken, and every step moves it forward through finitely many
\* positions; a run that got past the layout, whatever failed afterwards,
\* ends in LOGGED_OUT with the logout as its last call; a run whose layout
\* failed ends with the pre-clean logout as its only call and BW_SESSION as
\* the process found it.
C12_TerminatesLoggedOut ==
    /\ [](Finished \/ ENABLED Next)
    /\ [][LexLess(Position, Position')]_vars
    /\ []PositionBounded
    /\ []((Finished /\ PastLayout) => (LOGGED_OUT /\ LastCall.cmd = "logout"))
    /\ []((Finished /\ ~PastLayout) =>
            /\ Len(calls) = 1
            /\ LogoutAfterLastCall
            /\ SessionNow = SessionAtStart)

\* a run that failed in the organization exports and ended logged out
C12_Witness ==
    /\ Finished
    /\ failed_at.stage = "org_export"
    /\ LOGGED_OUT
    /\ SessionAtStart = StaleToken

(* ------------------------------- C13 ---------------------------------- *)
\* C13 as stated: no failure of any step, the layout included, leaves
\* bw_backup as a propagating error.
C13_AsClaimed == ~raised

\* C13, amended: the only failure that leaves bw_backup as a propagating
\* error is a layout failure; a non-zero exit of the pre-clean or of a later
\* logout is ignored, and every failure past the layout (credential-file
\* write, login, any export stage) is caught and turned into the result 1.
C13_CaughtPastLayout ==
    /\ raised => (failed_at.stage = "layout" /\ ~PastLayout /\ result = -1)
    /\ PastLayout => ~raised
    /\ (pc \in {"returned", "exited"} /\ PastLayout /\ failed_at # NoFailure) => result = 1
    /\ (Finished /\ failed_at # NoFailure) => exit_code = 1

\* a listing whose output could not be parsed, caught and returned as 1 after
\* a final logout that exited non-zero
C13_Witness ==
    /\ pc = "returned"
    /\ failed_at = Failure("list_folders", Error)
    /\ LastCall.cmd = "logout"
    /\ last_rc = 1
    /\ result = 1
    /\ ~raised

(* ------------------------------- C14 ---------------------------------- *)
\* C14: when the layout fails the error propagates at once and nothing is
\* touched afterwards: no credential file is written, no login, export-stage
\* or further logout call is made (the pre-clean logout stays the only call),
\* and the environment, BW_SESSION included, is as the process found it; the
\* channel variable is not even named.
C14_LayoutFailureTouchesNothing ==
    (failed_at.stage = "layout") =>
        /\ raised
        /\ pc \in {"raised", "exited"}
        /\ result = -1
        /\ Len(calls) = 1
        /\ calls[1].cmd = "logout"
        /\ environ = calls[1].env
        /\ password_env = Empty
        /\ bw_password = MasterPassword
        /\ (output_dir \in DOMAIN fs /\ fs[output_dir].run = "this") =>
              fs[output_dir].entries \subseteq {"attachments", "organizations"}

\* the second mkdir succeeded and the third raised, with a stale session set
C14_Witness ==
    /\ Finished
    /\ failed_at.stage = "layout"
    /\ output_dir \in DOMAIN fs
    /\ fs[output_dir] = ThisRun({"attachments"})
    /\ SessionNow = StaleToken
    /\ exit_code = 1

(* ------------------------------- C15 ---------------------------------- *)
\* C15: the first external call of every run is a logout, and its outcome is
\* ignored: whether it exits zero or non-zero, no failure is recorded, the run
\* goes on to the layout, and nothing but the exit status just received
\* (which the next call replaces) tells the two outcomes apart, so the steps
\* that follow and the final result are the same.
C15_PreCleanIgnored ==
    /\ (pc = "preclean") <=> (calls = <<>>)
    /\ (calls # <<>>) => (calls[1].cmd = "logout" /\ calls[1].arg = <<>>)
    /\ failed_at.stage # "preclean"
    /\ (pc = "layout") =>
          /\ Len(calls) = 1
          /\ last_rc \in ExitCodes
          /\ ~raised /\ result = -1 /\ exit_code = -1 /\ login_rc = -1
          /\ failed_at = NoFailure
          /\ environ = calls[1].env
          /\ bw_password = MasterPassword
          /\ fs = DiskWith(prior)
          /\ output_dir = <<>> /\ password_env = Empty
    /\ Finished => ((exit_code = 0) <=> (login_rc = 0 /\ failed_at = NoFailure))

\* the pre-clean logout exited non-zero and the run is at the layout
C15_Witness ==
    /\ pc = "layout"
    /\ last_rc = 1
    /\ calls = <<Call("logout", <<>>)>>
    /\ ~raised

(* ------------------------------- C16 ---------------------------------- *)
\* C16: right after a layout that succeeded, the run directory holds exactly
\* the two subdirectories attachments and organizations and nothing an
\* earlier run left at that path; a run never gets past the layout with an
\* earlier run's directory still in place: when the directory could not be
\* removed, the layout fails.
C16_FreshRunDir ==
    /\ (pc = "write_pw") =>
          /\ output_dir \in DOMAIN fs
          /\ fs[output_dir] = ThisRun({"attachments", "organizations"})
    /\ PastLayout => (output_dir \in DOMAIN fs /\ fs[output_dir].run = "this")
    /\ (output_dir \in DOMAIN fs /\ fs[output_dir].run = "prior") =>
          /\ failed_at = Failure("layout", Error)
          /\ raised
          /\ ~PastLayout

\* an earlier run's directory was at the path and the layout replaced it
C16_Witness ==
    /\ pc = "write_pw"
    /\ prior.exists
    /\ PriorDir(prior) = output_dir
    /\ fs[output_dir] = ThisRun({"attachments", "organizations"})

(* ------------------------------- C17 ---------------------------------- *)
\* C17 as stated: the channel variable holds the password during the login
\* call and is emptied right after that call whatever its outcome, so every
\* other external call finds it empty or unset; and the channel never has the
\* name of the session variable or of the user-id and password variables.
C17_AsClaimed ==
    /\ \A i \in 1..Len(calls) :
          IF calls[i].cmd = "login"
          THEN GetEnv(calls[i].env, password_env) = MasterPassword
          ELSE GetEnv(calls[i].env, password_env) = Empty
    /\ password_env \notin {SESSION, PASSWORD_VAR, USERID_VAR}

(* ------------------------------- C18 ---------------------------------- *)
\* the positions of the login calls
LoginCalls == {i \in 1..Len(calls) : calls[i].cmd = "login"}

\* C18: every export-stage call is made after a login call of this run that
\* exited zero, with BW_SESSION holding the token that login printed; and
\* BW_SESSION holds that token only after such a login.
C18_SessionFromLogin ==
    /\ \A i \in 1..Len(calls) :
          IsExportStage(calls[i]) =>
              /\ GetEnv(calls[i].env, SESSION) = Token
              /\ login_rc = 0
              /\ \E j \in LoginCalls : j < i
    /\ \A i \in 1..Len(calls) :
          (GetEnv(calls[i].env, SESSION) = Token) =>
              (login_rc = 0 /\ \E j \in LoginCalls : j < i)
    /\ (SessionNow = Token) => (login_rc = 0 /\ LoginCalls # {})
    /\ (SessionNow = StaleToken) =>
          /\ login_rc # 0
          /\ (calls # <<>>) => (SessionAtStart = StaleToken)

\* an organization export made with the new token in place of a stale one
C18_Witness ==
    /\ calls # <<>>
    /\ SessionAtStart = StaleToken
    /\ LastCall.cmd = "export organization"
    /\ GetEnv(LastCall.env, SESSION) = Token
    /\ login_rc = 0

(* ------------------------------- C19 ---------------------------------- *)
\* the credential record of lines 51-53 is in the run directory
CredentialFileThere ==
    /\ output_dir \in DOMAIN fs
    /\ "master_password.txt" \in fs[output_dir].entries

\* C19: on every path that reaches the login, master_password.txt was written
\* before it and stays in the run directory afterwards, a failed login
\* included; when writing it fails, no login call is ever made, the handler's
\* logout is the run's last call, BW_SESSION is cleared and the result is 1.
C19_CredentialFileFirst ==
    /\ (pc = "login" \/ LoginCalls # {}) => CredentialFileThere
    /\ (failed_at.stage = "login") => CredentialFileThere
    /\ (failed_at.stage = "write_pw") =>
          /\ LoginCalls = {}
          /\ \A i \in 1..Len(calls) : calls[i].cmd = "logout"
          /\ (pc \in {"returned", "exited"}) =>
                /\ Len(calls) = 2
                /\ SessionNow = Empty
                /\ result = 1 /\ ~raised

\* a login that exited non-zero; the run has ended and the file is there
C19_Witness ==
    /\ Finished
    /\ failed_at = Failure("login", ExitStatus)
    /\ CredentialFileThere
    /\ Len(calls) = 3
    /\ exit_code = 1

(* ------------------------------- C20 ---------------------------------- *)
\* how many calls of one command the run has made
Count(cmd) == Cardinality({i \in 1..Len(calls) : calls[i].cmd = cmd})
OnceCmds == {"login", "sync", "export", "list folders", "list items",
             "list organizations"}

\* C20: nothing is retried: a run makes at most one login call and at most
\* one call each of sync, vault export, list folders, list items and list
\* organizations; a run that got past the layout ends with exactly two logout
\* calls, the pre-clean and one after the authentication step, and a run
\* whose layout failed with exactly one.
C20_OnceEach ==
    /\ \A c \in OnceCmds : Count(c) <= 1
    /\ Count("logout") <= 2
    /\ (Finished /\ PastLayout) =>
          /\ Count("logout") = 2
          /\ calls[1].cmd = "logout"
          /\ LastCall.cmd = "logout"
          /\ \A i \in LoginCalls : 1 < i /\ i < Len(calls)
    /\ (Finished /\ ~PastLayout) =>
          /\ Count("logout") = 1
          /\ Len(calls) = 1

\* a successful run: each single command once, two logouts
C20_Witness ==
    /\ Finished
    /\ exit_code = 0
    /\ \A c \in OnceCmds : Count(c) = 1
    /\ Count("logout") = 2

=============================================================================
